---- MODULE Spec2Model ----
(***************************************************************************)
(* Transaction webhook service: the intake view (webhook_transaction), the *)
(* Celery task that finalizes a transaction (process_transaction) and the  *)
(* transactions table they share.                                          *)
(*                                                                         *)
(* The table is a PostgreSQL table reached through SQLAlchemy sessions     *)
(* (autocommit off, READ COMMITTED): a session sees committed rows only,   *)
(* an INSERT of a key another open transaction has inserted waits for that *)
(* transaction to end, and an INSERT of a committed key raises             *)
(* IntegrityError.                                                         *)
(***************************************************************************)
EXTENDS Integers, Sequences, FiniteSets, TLC

(* ---------------------------------------------------------------- bounds *)
MaxRequests == 2        \* webhook requests in flight over a run
MaxWorkers == 2         \* Celery worker slots
MaxTicks == 1           \* clock ticks (seconds) observed between two delays

(* ------------------------------------------------------- program constants *)
SleepSeconds == 30      \* time.sleep(30)
MaxIdLength == 255      \* CharField(max_length=255)
MaxCurrencyLength == 10 \* CharField(max_length=10)
MaxDigits == 20         \* DecimalField(max_digits=20)
DecimalPlaces == 2      \* DecimalField(decimal_places=2)

HTTP_200_OK == 200
HTTP_202_ACCEPTED == 202
HTTP_400_BAD_REQUEST == 400
HTTP_404_NOT_FOUND == 404
HTTP_500_INTERNAL_SERVER_ERROR == 500

PROCESSING == "PROCESSING"
PROCESSED == "PROCESSED"
TransactionStatus == {PROCESSING, PROCESSED}

Requests == 1..MaxRequests
Workers == 1..MaxWorkers

NULL == <<>>            \* SQL NULL / Python None, for an optional value <<v>>
Some(v) == <<v>>

(* ------------------------------------------------------------- inputs *)
\* Request bodies: a function from the field names present to their text.
\* The amount is the sequence of its characters, as it arrives on the wire.
Body(id, src, dst, amt, cur) ==
    [transaction_id |-> id, source_account |-> src,
     destination_account |-> dst, amount |-> amt, currency |-> cur]

Amount10050 == <<"1", "0", "0", ".", "5", "0">>
Amount200 == <<"2", "0", "0">>

AmountMinus5 == <<"-", "5">>

RECURSIVE Zeros(_)
Zeros(n) == IF n = 0 THEN <<>> ELSE <<"0">> \o Zeros(n - 1)

\* 100000000000000000.01: twenty digits, the most the serializer admits.
AmountWide == <<"1">> \o Zeros(17) \o <<".", "0", "1">>
AmountAbc == <<"a", "b", "c">>

Twice(s) == s \o s
Text256 == Twice(Twice(Twice(Twice(Twice(Twice(Twice(Twice("x"))))))))
Text11 == "ABCDEFGHIJK"

\* Bodies the serializer accepts: three payloads for one id, one with an
\* amount below zero and one with an amount of twenty digits.
ValidBodies ==
    { Body("tx-1", "A", "B", Amount10050, "USD"),
      Body("tx-1", "A", "C", AmountMinus5, "USD"),
      Body("tx-1", "A", "B", AmountWide, "USD") }

\* Bodies with a field missing, empty, over-long or unparsable.
BadBodies ==
    { [transaction_id |-> "tx-2", source_account |-> "A"],
      [source_account |-> "A", destination_account |-> "B",
       amount |-> Amount200, currency |-> "USD"],
      Body("", "A", "B", Amount200, "USD"),
      Body("tx-2", "", "B", Amount200, "USD"),
      Body("tx-2", "A", "", Amount200, "USD"),
      Body("tx-2", "A", "B", Amount200, ""),
      Body("tx-2", "A", "B", AmountAbc, "USD"),
      Body("tx-2", "A", "B", <<>>, "USD"),
      Body("tx-2", Text256, "B", Amount200, "USD"),
      Body("tx-2", "A", Text256, Amount200, "USD"),
      Body("tx-2", "A", "B", Amount200, Text11),
      Body(Text256, "A", "B", Amount200, "USD") }

Bodies == ValidBodies \cup BadBodies

\* The id a body names; the empty text when it names none.
IdOf(body) ==
    IF "transaction_id" \in DOMAIN body THEN body["transaction_id"] ELSE ""

\* The ids a row, a task or a transaction URL can carry: the primary key is
\* String(255) and the route needs a non-empty segment.
TxIds == { id \in { IdOf(b) : b \in Bodies } : Len(id) \in 1..MaxIdLength }

(* --------------------------------------------------------- serializer *)
Digits == {"0", "1", "2", "3", "4", "5", "6", "7", "8", "9"}

\* Position of the decimal point in s, or Len(s) + 1 when there is none.
PointAt(s) ==
    IF \E i \in 1..Len(s) : s[i] = "."
    THEN CHOOSE i \in 1..Len(s) : s[i] = "." /\ \A j \in 1..(i - 1) : s[j] # "."
    ELSE Len(s) + 1

Unsigned(s) == IF s # <<>> /\ s[1] = "-" THEN SubSeq(s, 2, Len(s)) ELSE s
WholePart(s) == SubSeq(Unsigned(s), 1, PointAt(Unsigned(s)) - 1)
FractionPart(s) == SubSeq(Unsigned(s), PointAt(Unsigned(s)) + 1, Len(Unsigned(s)))

\* The digits without their leading zeros.
RECURSIVE Strip(_)
Strip(s) == IF s # <<>> /\ s[1] = "0" THEN Strip(Tail(s)) ELSE s

\* DecimalField(max_digits=20, decimal_places=2): the text parses as a decimal
\* number with at most 2 decimal places, at most 20 digits in all and at
\* most 18 of them before the point. No min_value is given, so a sign is
\* accepted.
IsDecimal(s) ==
    /\ \A i \in 1..Len(WholePart(s)) : WholePart(s)[i] \in Digits
    /\ \A i \in 1..Len(FractionPart(s)) : FractionPart(s)[i] \in Digits
    /\ Len(WholePart(s)) + Len(FractionPart(s)) >= 1
    /\ Len(FractionPart(s)) <= DecimalPlaces
    /\ Len(Strip(WholePart(s))) + Len(FractionPart(s)) <= MaxDigits
    /\ Len(Strip(WholePart(s))) <= MaxDigits - DecimalPlaces

Negative(s) == s # <<>> /\ s[1] = "-"

\* The validated amount, quantized to 2 places: the Decimal as its text,
\* sign, whole digits, point and two decimals.
quantize(s) ==
    (IF Negative(s) THEN <<"-">> ELSE <<>>)
    \o (IF Strip(WholePart(s)) = <<>> THEN <<"0">> ELSE Strip(WholePart(s)))
    \o <<".">>
    \o FractionPart(s) \o Zeros(DecimalPlaces - Len(FractionPart(s)))

CharFieldOk_AllowBlank(data, field, max_length) ==
    /\ field \in DOMAIN data
    /\ Len(data[field]) <= max_length

CharFieldOk(data, field, max_length) ==
    /\ field \in DOMAIN data
    /\ data[field] # ""
    /\ Len(data[field]) <= max_length

\* TransactionWebhookSerializer.is_valid()
is_valid(data) ==
    /\ CharFieldOk(data, "transaction_id", MaxIdLength)
    /\ CharFieldOk(data, "source_account", MaxIdLength)
    /\ CharFieldOk(data, "destination_account", MaxIdLength)
    /\ "amount" \in DOMAIN data
    /\ IsDecimal(data["amount"])
    /\ CharFieldOk(data, "currency", MaxCurrencyLength)

\* serializer.validated_data
validated_data(data) == [data EXCEPT !["amount"] = quantize(data["amount"])]

(* ---------------------------------------------------------------- state *)
VARIABLES
    transactions,   \* the committed rows of table 'transactions', in insert order
    uncommitted,    \* rows INSERTed by a session whose transaction is still open
    req,            \* webhook_transaction: each request's position and locals
    wrk,            \* process_transaction: each worker's position and locals
    queue,          \* the broker: finalize requests awaiting delivery, per id
    task_calls,     \* how often process_transaction.delay(id) was called, per id
    now,            \* the clock, in seconds
    got,            \* get_transaction: the response to the latest GET
    failed,         \* how many task invocations failed on the PROCESSING row, per id
    health,         \* health_check: the response to the latest health check
    _engine,        \* database.py: the module global _engine
    _SessionLocal,  \* database.py: the module global _SessionLocal
    created,        \* how many engines and session factories were constructed
    thread          \* each thread's position in its first SessionLocal() call

\* The state of the server process outside the store and the broker.
process == <<health, _engine, _SessionLocal, created, thread>>

vars == <<transactions, uncommitted, req, wrk, queue, task_calls, now, got, failed,
          process>>

(* ---------------------------------------------------------------- store *)
\* db.query(Transaction).filter(Transaction.transaction_id == id).first()
first(rows, id) ==
    IF \E i \in DOMAIN rows : rows[i].transaction_id = id
    THEN Some(rows[CHOOSE i \in DOMAIN rows :
                     /\ rows[i].transaction_id = id
                     /\ \A j \in 1..(i - 1) : rows[j].transaction_id # id])
    ELSE NULL

\* db.query(Transaction).filter(...).count()
count(rows, id) == Cardinality({ i \in DOMAIN rows : rows[i].transaction_id = id })

NoPrimaryKey(rows, id) == FALSE

\* primary_key=True on transaction_id: a committed row already has this key.
UniqueViolation(rows, id) == \E i \in DOMAIN rows : rows[i].transaction_id = id

\* The key is held by an INSERT of another session's open transaction.
InsertWaits(r, id) ==
    \E u \in uncommitted : u.session # r /\ u.row.transaction_id = id

new_transaction_Processed(data, at) ==
    [transaction_id |-> data["transaction_id"],
     source_account |-> data["source_account"],
     destination_account |-> data["destination_account"],
     amount |-> data["amount"],
     currency |-> data["currency"],
     status |-> PROCESSED,
     created_at |-> at,
     processed_at |-> Some(at)]

\* Transaction(transaction_id=..., ..., status=PROCESSING); created_at is the
\* server default now(), processed_at is left NULL.
new_transaction(data, at) ==
    [transaction_id |-> data["transaction_id"],
     source_account |-> data["source_account"],
     destination_account |-> data["destination_account"],
     amount |-> data["amount"],
     currency |-> data["currency"],
     status |-> PROCESSING,
     created_at |-> at,
     processed_at |-> NULL]

(* ----------------------------------------------------------------- init *)
MaxThreads == 2
Threads == 1..MaxThreads
IdleThread == [pc |-> "idle"]

IdleRequest == [pc |-> "idle"]
IdleWorker == [pc |-> "idle"]

Init ==
    /\ transactions = <<>>
    /\ uncommitted = {}
    /\ req = [r \in Requests |-> IdleRequest]
    /\ wrk = [w \in Workers |-> IdleWorker]
    /\ queue = [id \in TxIds |-> 0]
    /\ task_calls = [id \in TxIds |-> 0]
    /\ now = 0
    /\ got = NULL
    /\ failed = [id \in TxIds |-> 0]
    /\ health = NULL
    /\ _engine = NULL
    /\ _SessionLocal = NULL
    /\ created = [engines |-> 0, factories |-> 0]
    /\ thread = [t \in Threads |-> IdleThread]

(* ------------------------------------------------- webhook_transaction *)
\* A finished request keeps its response, the return statement it took, and
\* what it did to the table and the broker. Every return after
\* db = SessionLocal() passes through finally: db.close(); the 400 return
\* comes before the session exists.
Responded(id, code, outcome, inserted, dispatched) ==
    [pc |-> "done", transaction_id |-> id, response |-> code,
     outcome |-> outcome, inserted |-> inserted, dispatched |-> dispatched,
     session_open |-> FALSE]

Reject_Accepting(r, body) ==
    /\ req' = [req EXCEPT ![r] =
                  Responded("", HTTP_202_ACCEPTED, "invalid", FALSE, FALSE)]
    /\ UNCHANGED transactions

\* if not serializer.is_valid(): return 400 with the errors. The response
\* names no transaction.
Reject(r, body) ==
    /\ req' = [req EXCEPT ![r] =
                  Responded("", HTTP_400_BAD_REQUEST, "invalid", FALSE, FALSE)]
    /\ UNCHANGED transactions

Duplicate_Redispatch(r, body) ==
    /\ req' = [req EXCEPT ![r] =
                  [pc |-> "delay", session_open |-> TRUE, transaction_id |-> body["transaction_id"],
                   inserted |-> FALSE]]
    /\ UNCHANGED transactions

Duplicate_Reset(r, body) ==
    /\ req' = [req EXCEPT ![r] =
                  Responded(body["transaction_id"], HTTP_202_ACCEPTED,
                            "duplicate", FALSE, FALSE)]
    /\ transactions' =
          [i \in DOMAIN transactions |->
              IF transactions[i].transaction_id = body["transaction_id"]
              THEN [transactions[i] EXCEPT !.status = PROCESSING]
              ELSE transactions[i]]

Duplicate_Overwrite(r, body) ==
    /\ req' = [req EXCEPT ![r] =
                  Responded(body["transaction_id"], HTTP_202_ACCEPTED,
                            "duplicate", FALSE, FALSE)]
    /\ transactions' =
          [i \in DOMAIN transactions |->
              IF transactions[i].transaction_id = body["transaction_id"]
              THEN [transactions[i] EXCEPT
                       !.destination_account = body["destination_account"],
                       !.amount = validated_data(body)["amount"]]
              ELSE transactions[i]]

\* if existing_transaction: return 202.
Duplicate(r, body) ==
    /\ req' = [req EXCEPT ![r] =
                  Responded(body["transaction_id"], HTTP_202_ACCEPTED,
                            "duplicate", FALSE, FALSE)]
    /\ UNCHANGED transactions

\* new_transaction = Transaction(...); db.add(new_transaction). Nothing
\* reaches the table before db.commit().
Add(r, body) ==
    /\ req' = [req EXCEPT ![r] =
                  [pc |-> "flush", session_open |-> TRUE, transaction_id |-> body["transaction_id"],
                   data |-> validated_data(body), began |-> now]]
    /\ UNCHANGED transactions

\* POST arrives: validation, then the lookup of transaction_id.
\* Requests are numbered in the order they arrive.
SubmitReceive(r) ==
    /\ req[r].pc = "idle"
    /\ \A q \in 1..(r - 1) : req[q].pc # "idle"
    /\ \E body \in Bodies :
          IF ~is_valid(body) THEN Reject(r, body)
          ELSE IF first(transactions, body["transaction_id"]) # NULL
          THEN Duplicate(r, body)
          ELSE Add(r, body)
    /\ UNCHANGED <<got, failed, uncommitted, wrk, queue, task_calls, now, process>>

Conflict_Dispatching(r) ==
    req' = [req EXCEPT ![r] =
               [pc |-> "delay", session_open |-> TRUE, transaction_id |-> req[r].transaction_id,
                inserted |-> FALSE]]

Conflict_ServerError(r) ==
    req' = [req EXCEPT ![r] =
               Responded(req[r].transaction_id, HTTP_500_INTERNAL_SERVER_ERROR,
                         "error", FALSE, FALSE)]

\* except IntegrityError: db.rollback(); return 202.
Conflict(r) ==
    req' = [req EXCEPT ![r] =
               Responded(req[r].transaction_id, HTTP_202_ACCEPTED,
                         "conflict", FALSE, FALSE)]

SubmitFlush_Upsert(r) ==
    /\ req[r].pc = "flush"
    /\ ~InsertWaits(r, req[r].transaction_id)
    /\ IF UniqueViolation(transactions, req[r].transaction_id)
       THEN /\ Conflict(r)
            /\ transactions' =
                  [i \in DOMAIN transactions |->
                      IF transactions[i].transaction_id = req[r].transaction_id
                      THEN [transactions[i] EXCEPT !.amount = req[r].data["amount"]]
                      ELSE transactions[i]]
            /\ UNCHANGED uncommitted
       ELSE /\ uncommitted' = uncommitted \cup
                   {[session |-> r, row |-> new_transaction(req[r].data, req[r].began)]}
            /\ req' = [req EXCEPT ![r] =
                          [pc |-> "commit", session_open |-> TRUE,
                           transaction_id |-> req[r].transaction_id]]
            /\ UNCHANGED transactions
    /\ UNCHANGED <<got, failed, wrk, queue, task_calls, now, process>>

\* db.commit(), first half: the INSERT of the pending object.
SubmitFlush(r) ==
    /\ req[r].pc = "flush"
    /\ ~InsertWaits(r, req[r].transaction_id)
    /\ IF UniqueViolation(transactions, req[r].transaction_id)
       THEN /\ Conflict(r)
            /\ UNCHANGED uncommitted
       ELSE /\ uncommitted' = uncommitted \cup
                   {[session |-> r, row |-> new_transaction(req[r].data, req[r].began)]}
            /\ req' = [req EXCEPT ![r] =
                          [pc |-> "commit", session_open |-> TRUE,
                           transaction_id |-> req[r].transaction_id]]
    /\ UNCHANGED <<got, failed, transactions, wrk, queue, task_calls, now, process>>

Commit_Lost(rows, r) == rows

\* COMMIT makes the session's inserted row visible to every reader.
Commit(rows, r) ==
    LET mine == { u \in uncommitted : u.session = r }
    IN  IF mine = {} THEN rows ELSE Append(rows, (CHOOSE u \in mine : TRUE).row)

\* db.commit(), second half: the COMMIT.
SubmitCommit(r) ==
    /\ req[r].pc = "commit"
    /\ transactions' = Commit(transactions, r)
    /\ uncommitted' = { u \in uncommitted : u.session # r }
    /\ req' = [req EXCEPT ![r] =
                  [pc |-> "delay", session_open |-> TRUE, transaction_id |-> req[r].transaction_id,
                   inserted |-> Len(transactions') > Len(transactions)]]
    /\ UNCHANGED <<got, failed, wrk, queue, task_calls, now, process>>

SubmitDelay_AwaitsResult(r) ==
    /\ req[r].pc = "delay"
    /\ first(transactions, req[r].transaction_id)[1].status = PROCESSED
    /\ queue' = [queue EXCEPT ![req[r].transaction_id] = @ + 1]
    /\ task_calls' = [task_calls EXCEPT ![req[r].transaction_id] = @ + 1]
    /\ req' = [req EXCEPT ![r] =
                  Responded(req[r].transaction_id, HTTP_202_ACCEPTED,
                            "created", req[r].inserted, TRUE)]
    /\ UNCHANGED <<got, failed, transactions, uncommitted, wrk, now, process>>

\* process_transaction.delay(transaction_id); return 202.
SubmitDelay(r) ==
    /\ req[r].pc = "delay"
    /\ queue' = [queue EXCEPT ![req[r].transaction_id] = @ + 1]
    /\ task_calls' = [task_calls EXCEPT ![req[r].transaction_id] = @ + 1]
    /\ req' = [req EXCEPT ![r] =
                  Responded(req[r].transaction_id, HTTP_202_ACCEPTED,
                            "created", req[r].inserted, TRUE)]
    /\ UNCHANGED <<got, failed, transactions, uncommitted, wrk, now, process>>

Submit(r) ==
    \/ SubmitReceive(r)
    \/ SubmitFlush(r)
    \/ SubmitCommit(r)
    \/ SubmitDelay(r)

(* ----------------------------------------------------- get_transaction *)
FloatDigits == 15       \* decimal digits a Python float always preserves

DoubleDigits == 17      \* decimal digits a Python float carries at most

\* float(transaction.amount): an amount of up to FloatDigits digits converts
\* exactly; of a longer one the digits after the DoubleDigits-th are lost.
ToFloat(amount) ==
    LET u == Unsigned(amount)
        rank(i) == IF i < PointAt(u) THEN i ELSE i - 1
        kept == [i \in 1..Len(u) |->
                    IF u[i] = "." \/ rank(i) <= DoubleDigits THEN u[i] ELSE "0"]
    IN  IF Len(u) - 1 <= FloatDigits THEN amount
        ELSE (IF Negative(amount) THEN <<"-">> ELSE <<>>) \o kept

\* The one-element result list built from the row.
Render(row) ==
    <<[transaction_id |-> row.transaction_id,
       source_account |-> row.source_account,
       destination_account |-> row.destination_account,
       amount |-> ToFloat(row.amount),
       currency |-> row.currency,
       status |-> row.status,
       created_at |-> Some(row.created_at),
       processed_at |-> row.processed_at]>>

Response_Default(rows, id) ==
    IF first(rows, id) = NULL
    THEN [transaction_id |-> id, code |-> HTTP_200_OK, body |-> <<>>]
    ELSE [transaction_id |-> id, code |-> HTTP_200_OK,
          body |-> Render(first(rows, id)[1])]

\* The response to GET /v1/transactions/<id>: 404 or the rendered row.
Response(rows, id) ==
    IF first(rows, id) = NULL
    THEN [transaction_id |-> id, code |-> HTTP_404_NOT_FOUND, body |-> <<>>]
    ELSE [transaction_id |-> id, code |-> HTTP_200_OK,
          body |-> Render(first(rows, id)[1])]

\* get_transaction(request, transaction_id): one lookup, no write.
Get(id) ==
    /\ got' = Some(Response(transactions, id))
    /\ UNCHANGED <<transactions, uncommitted, req, wrk, queue, task_calls, now, failed, process>>

(* -------------------------------------------------------------- broker *)
\* The worker slot is free to take a task. Slots are interchangeable, so a
\* task goes to the first free one.
Free(w) == wrk[w].pc \in {"idle", "done"}
FirstFree(w) == Free(w) /\ \A v \in 1..(w - 1) : ~Free(v)

\* db = SessionLocal(): a session with autocommit off and no transaction yet.
Started(id) ==
    [pc |-> "query", transaction_id |-> id, in_transaction |-> FALSE,
     session_open |-> TRUE]

\* The broker hands a queued finalize request to a worker.
WorkerDeliver(w) ==
    /\ FirstFree(w)
    /\ \E id \in TxIds :
          /\ queue[id] > 0
          /\ queue' = [queue EXCEPT ![id] = @ - 1]
          /\ wrk' = [wrk EXCEPT ![w] = Started(id)]
    /\ UNCHANGED <<got, failed, transactions, uncommitted, req, task_calls, now, process>>

\* At-least-once delivery: a request that was enqueued is queued again.
Redeliver(id) ==
    /\ task_calls[id] > 0
    /\ queue[id] = 0
    /\ queue' = [queue EXCEPT ![id] = 1]
    /\ UNCHANGED <<got, failed, transactions, uncommitted, req, wrk, task_calls, now, process>>

(* ------------------------------------------------- process_transaction *)
\* The return, through finally: db.close(), which ends the session's
\* transaction.
Returned_Unclosed(w, result) ==
    [pc |-> "done", transaction_id |-> wrk[w].transaction_id,
     result |-> result, in_transaction |-> FALSE, session_open |-> TRUE]

Returned(w, result) ==
    [pc |-> "done", transaction_id |-> wrk[w].transaction_id,
     result |-> result, in_transaction |-> FALSE, session_open |-> FALSE]

\* time.sleep(30) begins. The lookup's SELECT began the session's
\* transaction, and nothing has ended it.
Sleeping(w) ==
    [pc |-> "sleep", session_open |-> TRUE, transaction_id |-> wrk[w].transaction_id,
     wake |-> now + SleepSeconds, in_transaction |-> TRUE]

AfterLookup_Unchecked(w, transaction) ==
    IF transaction = NULL THEN Returned(w, "not found") ELSE Sleeping(w)

AfterLookup_WaitsForRow(w, transaction) ==
    IF transaction = NULL THEN Sleeping(w)
    ELSE IF transaction[1].status = PROCESSED
    THEN Returned(w, "already processed")
    ELSE Sleeping(w)

\* The two early returns, else time.sleep(30) begins.
AfterLookup(w, transaction) ==
    IF transaction = NULL THEN Returned(w, "not found")
    ELSE IF transaction[1].status = PROCESSED
    THEN Returned(w, "already processed")
    ELSE Sleeping(w)

\* transaction = db.query(...).first() and what follows up to the sleep.
WorkerQuery(w) ==
    /\ wrk[w].pc = "query"
    /\ wrk' = [wrk EXCEPT ![w] =
                  AfterLookup(w, first(transactions, wrk[w].transaction_id))]
    /\ UNCHANGED <<got, failed, transactions, uncommitted, req, queue, task_calls, now, process>>

Processed_StatusOnly(row, at) == [row EXCEPT !.status = PROCESSED]

Processed_Backdated(row, at) ==
    [row EXCEPT !.status = PROCESSED, !.processed_at = Some(row.created_at - 1)]

\* transaction.status = PROCESSED; transaction.processed_at = utcnow():
\* the row as the UPDATE leaves it.
Processed(row, at) ==
    [row EXCEPT !.status = PROCESSED, !.processed_at = Some(at)]

Update_Nothing(rows, id, at) == rows

Update_All(rows, id, at) ==
    [i \in DOMAIN rows |-> Processed(rows[i], at)]

\* db.commit() of the dirty object: UPDATE transactions SET status = ...,
\* processed_at = ... WHERE transaction_id = id.
Update(rows, id, at) ==
    [i \in DOMAIN rows |->
        IF rows[i].transaction_id = id THEN Processed(rows[i], at) ELSE rows[i]]

\* time.sleep(30) returns, no sooner than SleepSeconds after it began.
Woken(w) == IF now < wrk[w].wake THEN wrk[w].wake ELSE now

\* After the sleep: the assignment of status and processed_at, db.commit(),
\* the return.
WorkerCommit(w) ==
    /\ wrk[w].pc = "sleep"
    /\ now' = Woken(w)
    /\ transactions' = Update(transactions, wrk[w].transaction_id, now')
    /\ wrk' = [wrk EXCEPT ![w] = Returned(w, "processed successfully")]
    /\ UNCHANGED <<got, failed, uncommitted, req, queue, task_calls, process>>

Finalize(w) ==
    \/ WorkerDeliver(w)
    \/ WorkerQuery(w)
    \/ WorkerCommit(w)

(* --------------------------------------------------------------- clock *)
\* A second passes.
Tick ==
    /\ now % SleepSeconds < MaxTicks
    /\ now' = now + 1
    /\ UNCHANGED <<got, failed, transactions, uncommitted, req, wrk, queue, task_calls, process>>

Next ==
    \/ \E r \in Requests : Submit(r)
    \/ \E w \in Workers : Finalize(w)
    \/ \E id \in TxIds : Redeliver(id)
    \/ Tick

Spec == Init /\ [][Next]_vars

\* A request that has passed its lookup runs to its return, the broker hands
\* a queued request to a free worker, and a started task runs to its return.
\* Nothing obliges a request to arrive, the broker to redeliver or the clock
\* to tick.
Fairness ==
    /\ \A r \in Requests :
          WF_vars(SubmitFlush(r) \/ SubmitCommit(r) \/ SubmitDelay(r))
    /\ WF_vars(\E w \in Workers : WorkerDeliver(w))
    /\ \A w \in Workers : WF_vars(WorkerQuery(w) \/ WorkerCommit(w))

\* The runs the liveness of completion is checked on.
MaxLiveRequests == 1
NextLive ==
    \/ \E r \in 1..MaxLiveRequests : Submit(r)
    \/ \E w \in Workers : Finalize(w)
    \/ \E id \in TxIds : Redeliver(id)
    \/ Tick

SpecLive == Init /\ [][NextLive]_vars /\ Fairness

(* ------------------------------------------------------------- queries *)
\* The service with clients polling transactions.
MaxGetRequests == 1
MaxGetWorkers == 1
NextGet ==
    \/ \E r \in 1..MaxGetRequests : Submit(r)
    \/ \E w \in 1..MaxGetWorkers : Finalize(w)
    \/ \E id \in TxIds : Redeliver(id)
    \/ Tick
    \/ \E id \in TxIds : Get(id)

SpecGet == Init /\ [][NextGet]_vars

(* -------------------------------------------------------- health_check *)
Health_ChecksStore ==
    /\ health' =
          Some([status |-> IF \E r \in Requests :
                                 req[r].pc = "done" /\ req[r].outcome = "store_failed"
                              THEN "UNHEALTHY" ELSE "HEALTHY",
                current_time |-> now])
    /\ UNCHANGED <<transactions, uncommitted, req, wrk, queue, task_calls, now,
                   got, failed, _engine, _SessionLocal, created, thread>>

\* health_check(request): the constant status and the time of the call.
Health ==
    /\ health' = Some([status |-> "HEALTHY", current_time |-> now])
    /\ UNCHANGED <<transactions, uncommitted, req, wrk, queue, task_calls, now,
                   got, failed, _engine, _SessionLocal, created, thread>>

(* -------------------------------------------------------- direct calls *)
\* process_transaction(transaction_id) called directly, for any id.
WorkerCall(w, id) ==
    /\ FirstFree(w)
    /\ wrk' = [wrk EXCEPT ![w] = Started(id)]
    /\ UNCHANGED <<got, failed, transactions, uncommitted, req, queue, task_calls, now, process>>

\* A request that has passed its lookup runs to its return. Nothing obliges
\* the broker to deliver or a worker to take a step.
SubmitFairness ==
    \A r \in Requests :
        WF_vars(SubmitFlush(r) \/ SubmitCommit(r) \/ SubmitDelay(r))

\* The service with tasks also run by direct call.
MaxCallRequests == 1
MaxCallWorkers == 1
NextCall ==
    \/ \E r \in 1..MaxCallRequests : Submit(r)
    \/ \E w \in 1..MaxCallWorkers : Finalize(w)
    \/ \E id \in TxIds : Redeliver(id)
    \/ Tick
    \/ \E w \in 1..MaxCallWorkers : \E id \in TxIds : WorkerCall(w, id)

SpecCall == Init /\ [][NextCall]_vars /\ SubmitFairness

\* The workers alone, on a table that holds the rows of two ids submitted
\* earlier whose tasks are run by direct call.
StoredBodies ==
    <<Body("tx-1", "A", "B", Amount10050, "USD"),
      Body("tx-2", "A", "C", Amount200, "USD")>>

InitStored ==
    /\ transactions =
          [i \in DOMAIN StoredBodies |->
              new_transaction(validated_data(StoredBodies[i]), 0)]
    /\ uncommitted = {}
    /\ req = [r \in Requests |-> IdleRequest]
    /\ wrk = [w \in Workers |-> IdleWorker]
    /\ queue = [id \in TxIds |-> 0]
    /\ task_calls = [id \in TxIds |-> 0]
    /\ now = 0
    /\ got = NULL
    /\ failed = [id \in TxIds |-> 0]
    /\ health = NULL
    /\ _engine = NULL
    /\ _SessionLocal = NULL
    /\ created = [engines |-> 0, factories |-> 0]
    /\ thread = [t \in Threads |-> IdleThread]

NextStored ==
    \/ \E w \in Workers :
          \/ \E id \in TxIds : WorkerCall(w, id)
          \/ WorkerQuery(w)
          \/ WorkerCommit(w)
    \/ Tick

SpecStored == InitStored /\ [][NextStored]_vars

(* ------------------------------------------------------------ failures *)
\* except Exception as e: db.rollback(); return 500 with the error.
ServerError(id, outcome, inserted) ==
    Responded(id, HTTP_500_INTERNAL_SERVER_ERROR, outcome, inserted, FALSE)

\* The lookup raises (the store is unreachable): nothing was written.
SubmitQueryFails(r) ==
    /\ req[r].pc = "idle"
    /\ \A q \in 1..(r - 1) : req[q].pc # "idle"
    /\ \E body \in Bodies :
          /\ is_valid(body)
          /\ req' = [req EXCEPT ![r] =
                        ServerError(body["transaction_id"], "store_failed", FALSE)]
    /\ UNCHANGED <<transactions, uncommitted, wrk, queue, task_calls, now, got, failed, process>>

SubmitFlushFails_Persisting(r) ==
    /\ req[r].pc \in {"flush", "commit"}
    /\ req' = [req EXCEPT ![r] =
                  ServerError(req[r].transaction_id, "store_failed", FALSE)]
    /\ uncommitted' = { u \in uncommitted : u.session # r }
    /\ transactions' = Commit(transactions, r)
    /\ UNCHANGED <<wrk, queue, task_calls, now, got, failed, process>>

\* db.commit() raises something other than IntegrityError, at the INSERT or
\* at the COMMIT: the rollback leaves no row of this session.
SubmitFlushFails(r) ==
    /\ req[r].pc \in {"flush", "commit"}
    /\ req' = [req EXCEPT ![r] =
                  ServerError(req[r].transaction_id, "store_failed", FALSE)]
    /\ uncommitted' = { u \in uncommitted : u.session # r }
    /\ UNCHANGED <<transactions, wrk, queue, task_calls, now, got, failed, process>>

\* process_transaction.delay() raises (the broker is unreachable) after the
\* commit: db.rollback() has nothing to undo, the row stays.
SubmitDelayFails(r) ==
    /\ req[r].pc = "delay"
    /\ req' = [req EXCEPT ![r] =
                  ServerError(req[r].transaction_id, "enqueue_failed",
                              req[r].inserted)]
    /\ UNCHANGED <<transactions, uncommitted, wrk, queue, task_calls, now, got, failed, process>>

\* Failures are transient: at most MaxFailures invocations fail on one row.
MaxFailures == 1

Pending(id) ==
    first(transactions, id) # NULL /\ first(transactions, id)[1].status = PROCESSING

MayFail(id) == Pending(id) => failed[id] < MaxFailures

\* A failure on a PROCESSING row is counted.
Failing(id) ==
    IF Pending(id) THEN [failed EXCEPT ![id] = @ + 1] ELSE failed

\* The task's lookup raises: except Exception: db.rollback(); the task
\* returns the error text, which ends the task normally.
WorkerQueryFails(w) ==
    /\ wrk[w].pc = "query"
    /\ MayFail(wrk[w].transaction_id)
    /\ wrk' = [wrk EXCEPT ![w] = Returned(w, "error")]
    /\ failed' = Failing(wrk[w].transaction_id)
    /\ UNCHANGED <<transactions, uncommitted, req, queue, task_calls, now, got, process>>

WorkerCommitFails_Partial(w) ==
    /\ wrk[w].pc = "sleep"
    /\ MayFail(wrk[w].transaction_id)
    /\ now' = Woken(w)
    /\ transactions' =
          [i \in DOMAIN transactions |->
              IF transactions[i].transaction_id = wrk[w].transaction_id
              THEN [transactions[i] EXCEPT !.status = PROCESSED]
              ELSE transactions[i]]
    /\ wrk' = [wrk EXCEPT ![w] = Returned(w, "error")]
    /\ failed' = Failing(wrk[w].transaction_id)
    /\ UNCHANGED <<uncommitted, req, queue, task_calls, got, process>>

\* db.commit() of the update raises after the sleep: rollback, error text.
WorkerCommitFails(w) ==
    /\ wrk[w].pc = "sleep"
    /\ MayFail(wrk[w].transaction_id)
    /\ now' = Woken(w)
    /\ wrk' = [wrk EXCEPT ![w] = Returned(w, "error")]
    /\ failed' = Failing(wrk[w].transaction_id)
    /\ UNCHANGED <<transactions, uncommitted, req, queue, task_calls, got, process>>

\* The task is killed during time.sleep(30) (worker shutdown, time limit):
\* it never reaches the assignments.
WorkerCancelled(w) ==
    /\ wrk[w].pc = "sleep"
    /\ MayFail(wrk[w].transaction_id)
    /\ wrk' = [wrk EXCEPT ![w] = Returned(w, "cancelled")]
    /\ failed' = Failing(wrk[w].transaction_id)
    /\ UNCHANGED <<transactions, uncommitted, req, queue, task_calls, now, got, process>>

MaxFailRequests == 1
MaxFailWorkers == 1
NextFail ==
    \/ \E r \in 1..MaxFailRequests :
          \/ Submit(r)
          \/ SubmitQueryFails(r) \/ SubmitFlushFails(r) \/ SubmitDelayFails(r)
    \/ \E w \in 1..MaxFailWorkers :
          \/ Finalize(w)
          \/ WorkerQueryFails(w) \/ WorkerCommitFails(w) \/ WorkerCancelled(w)
    \/ \E id \in TxIds : Redeliver(id)
    \/ Tick

SpecFail == Init /\ [][NextFail]_vars

\* The service with a broker that may be unreachable when a submission
\* makes its task call, and with nothing enqueued from outside.
MaxGapRequests == 2
MaxGapWorkers == 1
NextGap ==
    \/ \E r \in 1..MaxGapRequests : Submit(r) \/ SubmitDelayFails(r)
    \/ \E w \in 1..MaxGapWorkers : Finalize(w)
    \/ \E id \in TxIds : Redeliver(id)
    \/ Tick

SpecGap == Init /\ [][NextGap]_vars

\* The failing service with its health checked at any moment.
NextHealth ==
    \/ \E r \in 1..MaxFailRequests :
          \/ Submit(r)
          \/ SubmitQueryFails(r) \/ SubmitFlushFails(r) \/ SubmitDelayFails(r)
    \/ \E w \in 1..MaxFailWorkers : Finalize(w)
    \/ Tick
    \/ Health

SpecHealth == Init /\ [][NextHealth]_vars

(* ------------------------------------------------- engine and sessions *)
\* database.py keeps the engine and the session factory in two module
\* globals, filled on first use. Threads of one process share them; a thread
\* may be switched out between any two reads or writes of a global. The
\* database URL is configured, so create_engine is reached.
service == <<transactions, uncommitted, req, wrk, queue, task_calls, now,
             got, failed, health>>

Calling(t) == thread[t].pc \in {"idle", "done"}

\* A direct call of get_engine().
CallEngine(t) ==
    /\ Calling(t)
    /\ thread' = [thread EXCEPT ![t] = [pc |-> "get_engine", caller |-> "caller"]]
    /\ UNCHANGED <<service, _engine, _SessionLocal, created>>

\* _get_session_factory(): if _SessionLocal is None, go on to get_engine();
\* otherwise fall through to return _SessionLocal.
CheckFactory(t) ==
    /\ Calling(t)
    /\ thread' = [thread EXCEPT ![t] =
                     IF _SessionLocal = NULL
                     THEN [pc |-> "get_engine", caller |-> "_get_session_factory"]
                     ELSE [pc |-> "return_factory"]]
    /\ UNCHANGED <<service, _engine, _SessionLocal, created>>

\* get_engine(): if _engine is None.
CheckEngine(t) ==
    /\ thread[t].pc = "get_engine"
    /\ thread' = [thread EXCEPT ![t] =
                     [pc |-> IF _engine = NULL THEN "create_engine" ELSE "return_engine",
                      caller |-> thread[t].caller]]
    /\ UNCHANGED <<service, _engine, _SessionLocal, created>>

\* _engine = create_engine(...): a new engine, stored in the global.
CreateEngine(t) ==
    /\ thread[t].pc = "create_engine"
    /\ created' = [created EXCEPT !.engines = @ + 1]
    /\ _engine' = Some(created.engines + 1)
    /\ thread' = [thread EXCEPT ![t] =
                     [pc |-> "return_engine", caller |-> thread[t].caller]]
    /\ UNCHANGED <<service, _SessionLocal>>

\* return _engine: the global as it is now, to the caller or to
\* _get_session_factory's local engine.
ReturnEngine(t) ==
    /\ thread[t].pc = "return_engine"
    /\ thread' = [thread EXCEPT ![t] =
                     IF thread[t].caller = "caller"
                     THEN [pc |-> "done", call |-> "get_engine", returned |-> _engine]
                     ELSE [pc |-> "sessionmaker", engine |-> _engine]]
    /\ UNCHANGED <<service, _engine, _SessionLocal, created>>

\* _SessionLocal = sessionmaker(..., bind=engine): a new factory, stored in
\* the global.
CreateFactory(t) ==
    /\ thread[t].pc = "sessionmaker"
    /\ created' = [created EXCEPT !.factories = @ + 1]
    /\ _SessionLocal' = Some([factory |-> created.factories + 1,
                              bind |-> thread[t].engine])
    /\ thread' = [thread EXCEPT ![t] = [pc |-> "return_factory"]]
    /\ UNCHANGED <<service, _engine>>

\* return _SessionLocal: the global as it is now.
ReturnFactory(t) ==
    /\ thread[t].pc = "return_factory"
    /\ thread' = [thread EXCEPT ![t] =
                     [pc |-> "done", call |-> "_get_session_factory",
                      returned |-> _SessionLocal]]
    /\ UNCHANGED <<service, _engine, _SessionLocal, created>>

NextEngine ==
    \E t \in Threads :
        \/ CallEngine(t)
        \/ CheckFactory(t)
        \/ CheckEngine(t)
        \/ CreateEngine(t)
        \/ ReturnEngine(t)
        \/ CreateFactory(t)
        \/ ReturnFactory(t)

SpecEngine == Init /\ [][NextEngine]_vars

(* ------------------------------------------------------------ properties *)
Stored(id) == first(transactions, id)
Busy(w, id) == wrk[w].pc \in {"query", "sleep"} /\ wrk[w].transaction_id = id
Done(r) == req[r].pc = "done"
Accepted(r) == Done(r) /\ req[r].response = HTTP_202_ACCEPTED

\* C1. Idempotent creation: however many submissions of an id interleave
\* their lookup, INSERT and COMMIT, the table never holds two rows with that
\* id, and once a submission of the id was accepted it holds exactly one.
C1_IdempotentCreation ==
    \A id \in TxIds :
        /\ count(transactions, id) <= 1
        /\ (\E r \in Requests : Accepted(r) /\ req[r].transaction_id = id)
              => count(transactions, id) = 1

\* Two submissions of one id were both accepted, one of them after losing the
\* INSERT to the other.
C1_Witness ==
    \E r1, r2 \in Requests :
        /\ r1 # r2
        /\ Accepted(r1) /\ Accepted(r2)
        /\ req[r1].transaction_id = req[r2].transaction_id
        /\ req[r1].outcome = "created" /\ req[r2].outcome = "conflict"
        /\ count(transactions, req[r1].transaction_id) = 1

\* C2. At-most-once completion: once processed_at of a row holds a value, no
\* step changes it.
C2_CompletedAtWrittenOnce ==
    [][\A i \in DOMAIN transactions :
          transactions[i].processed_at # NULL
             => /\ i \in DOMAIN transactions'
                /\ transactions'[i].processed_at = transactions[i].processed_at]_vars

\* C3. Of the invocations of process_transaction on one id, at most one
\* returns 'processed successfully'; the others are skipped.
C3_OneWinner ==
    \A w1, w2 \in Workers :
        (/\ w1 # w2
         /\ wrk[w1].pc = "done" /\ wrk[w2].pc = "done"
         /\ wrk[w1].transaction_id = wrk[w2].transaction_id
         /\ wrk[w1].result = "processed successfully")
            => wrk[w2].result # "processed successfully"

C6_AllAccepted ==
    \A r \in Requests :
        (Done(r) /\ req[r].outcome # "invalid") => req[r].response = HTTP_202_ACCEPTED

\* A submission whose INSERT raised IntegrityError was answered 202.
C6_Witness ==
    \E r \in Requests : Accepted(r) /\ req[r].outcome = "conflict"

\* C7. A finalize request that is queued or being worked on names a row that
\* is committed, and no invocation returns 'not found'.
C7_EnqueueAfterCommit ==
    /\ \A id \in TxIds :
          (queue[id] > 0 \/ \E w \in Workers : Busy(w, id)) => Stored(id) # NULL
    /\ \A w \in Workers : wrk[w].pc = "done" => wrk[w].result # "not found"

\* A finalize request was redelivered: it is queued again while a worker is
\* still busy with the same id, and the row is there.
C7_Witness ==
    \E id \in TxIds :
        /\ queue[id] > 0
        /\ Stored(id) # NULL
        /\ \E w \in Workers : Busy(w, id)

\* C8. processed_at is non-null exactly in the rows whose status is PROCESSED.
C8_CompletedAtIffCompleted ==
    \A i \in DOMAIN transactions :
        transactions[i].processed_at # NULL <=> transactions[i].status = PROCESSED

\* A row was processed.
C8_Witness ==
    \E i \in DOMAIN transactions :
        transactions[i].status = PROCESSED /\ transactions[i].processed_at # NULL

\* C9. A PROCESSED row stays PROCESSED in every step of every operation.
C9_NeverReverts ==
    [][\A id \in TxIds :
          (Stored(id) # NULL /\ Stored(id)[1].status = PROCESSED)
             => /\ first(transactions', id) # NULL
                /\ first(transactions', id)[1].status = PROCESSED]_vars

\* The id of a PROCESSED row was submitted again, and the row is still PROCESSED.
C9_Witness ==
    \E r \in Requests :
        /\ Done(r) /\ req[r].outcome = "duplicate"
        /\ Stored(req[r].transaction_id) # NULL
        /\ Stored(req[r].transaction_id)[1].status = PROCESSED
        /\ \E w \in Workers :
              wrk[w].pc = "done" /\ wrk[w].result = "processed successfully"

\* C10. An invocation whose lookup finds the row PROCESSED returns 'already
\* processed' at once and leaves the table as it was.
C10_RedeliveryIdempotent ==
    [][\A w \in Workers :
          (/\ wrk[w].pc = "query"
           /\ Stored(wrk[w].transaction_id) # NULL
           /\ Stored(wrk[w].transaction_id)[1].status = PROCESSED
           /\ wrk'[w] # wrk[w])
             => /\ wrk'[w].pc = "done"
                /\ wrk'[w].result = "already processed"
                /\ transactions' = transactions]_vars

\* After one invocation processed the row, another returned 'already processed'.
C10_Witness ==
    \E w1, w2 \in Workers :
        /\ wrk[w1].pc = "done" /\ wrk[w1].result = "processed successfully"
        /\ wrk[w2].pc = "done" /\ wrk[w2].result = "already processed"
        /\ wrk[w1].transaction_id = wrk[w2].transaction_id

Completed(id) ==
    /\ Stored(id) # NULL
    /\ Stored(id)[1].status = PROCESSED
    /\ Stored(id)[1].processed_at # NULL

\* C11. Eventual completion: with requests, broker and workers scheduled
\* fairly and nothing failing, every committed row eventually is PROCESSED
\* with processed_at set.
C11_EventualCompletion ==
    \A id \in TxIds : (Stored(id) # NULL) ~> Completed(id)

\* A row was created by a submission and has been completed by a worker.
C11_Witness ==
    \E r \in Requests :
        /\ Done(r) /\ req[r].outcome = "created"
        /\ Completed(req[r].transaction_id)

\* The row is as the submission created it: PROCESSING, processed_at NULL.
Untouched(row) == row.status = PROCESSING /\ row.processed_at = NULL

\* Worker w commits its update of the row of id in this step.
CommitsUpdate(w, id) ==
    /\ wrk[w].pc = "sleep"
    /\ wrk[w].transaction_id = id
    /\ wrk'[w].pc = "done"
    /\ wrk'[w].result = "processed successfully"

\* C12. No premature completion: every row enters the table PROCESSING with
\* processed_at NULL; a row in that condition leaves it only in the step in
\* which a task for its id commits its update; and a GET answered while the
\* row is in that condition shows PROCESSING and a null processed_at.
C12_NoPrematureCompletion ==
    [][/\ \A i \in DOMAIN transactions' :
              i > Len(transactions) => Untouched(transactions'[i])
       /\ \A i \in DOMAIN transactions :
              Untouched(transactions[i]) =>
                 \/ Untouched(transactions'[i])
                 \/ \E w \in Workers :
                       CommitsUpdate(w, transactions[i].transaction_id)
       /\ \A id \in TxIds :
              (/\ got' # got
               /\ got'[1].transaction_id = id
               /\ Stored(id) # NULL
               /\ Untouched(Stored(id)[1]))
              => /\ got'[1].code = HTTP_200_OK
                 /\ got'[1].body[1].status = PROCESSING
                 /\ got'[1].body[1].processed_at = NULL]_vars

\* A GET after the accepted first submission of an id has answered with the
\* row still PROCESSING and its processed_at null.
C12_Witness ==
    /\ got # NULL
    /\ got[1].code = HTTP_200_OK
    /\ got[1].body[1].status = PROCESSING
    /\ got[1].body[1].processed_at = NULL
    /\ \E r \in Requests :
          /\ Accepted(r) /\ req[r].outcome = "created"
          /\ req[r].transaction_id = got[1].transaction_id

\* C13. Immediate visibility: from the state in which a submission of an id
\* has returned 202 onwards, a GET of that id answers 200 with the row of
\* that id, never 404.
C13_ImmediateVisibility ==
    \A r \in Requests :
        Accepted(r) =>
            /\ Response(transactions, req[r].transaction_id).code = HTTP_200_OK
            /\ Response(transactions, req[r].transaction_id).body[1].transaction_id
                  = req[r].transaction_id

\* A GET of an id has answered 200 and a submission of the id was accepted.
C13_Witness ==
    /\ got # NULL
    /\ got[1].code = HTTP_200_OK
    /\ \E r \in Requests :
          Accepted(r) /\ req[r].transaction_id = got[1].transaction_id

\* Request r takes a step in which it finds the row of its id committed:
\* at its lookup, or at its INSERT.
FindsExisting(r) ==
    /\ req[r].pc \in {"idle", "flush"}
    /\ req'[r] # req[r]
    /\ Stored(req'[r].transaction_id) # NULL

\* C14. A submission that finds the row of its id already in the table, be
\* it PROCESSING or PROCESSED, returns 202 in that step, leaves the table as
\* it is (whatever its payload) and enqueues nothing.
C14_DuplicateAbsorbed ==
    [][\A r \in Requests :
          FindsExisting(r) =>
             /\ req'[r].pc = "done"
             /\ req'[r].response = HTTP_202_ACCEPTED
             /\ ~req'[r].dispatched
             /\ transactions' = transactions
             /\ queue' = queue
             /\ task_calls' = task_calls]_vars

\* A duplicate was answered 202 after the row had been completed, and the
\* row still carries the payload of the first submission; one task call was
\* made for the id.
C14_Witness ==
    \E r1, r2 \in Requests :
        /\ Done(r1) /\ req[r1].outcome = "created"
        /\ Done(r2) /\ req[r2].outcome = "duplicate"
        /\ req[r2].response = HTTP_202_ACCEPTED
        /\ req[r1].transaction_id = req[r2].transaction_id
        /\ task_calls[req[r1].transaction_id] = 1
        /\ Completed(req[r1].transaction_id)

Fields == {"transaction_id", "source_account", "destination_account", "currency"}
Limit(field) == IF field = "currency" THEN MaxCurrencyLength ELSE MaxIdLength

\* The text is a decimal numeral: an optional sign, digits, at most one point.
Numeral(s) ==
    LET u == IF s # <<>> /\ s[1] = "-" THEN SubSeq(s, 2, Len(s)) ELSE s
    IN  /\ \E i \in 1..Len(u) : u[i] \in Digits
        /\ \A i \in 1..Len(u) : u[i] \in Digits \cup {"."}
        /\ Cardinality({ i \in 1..Len(u) : u[i] = "." }) <= 1

\* A body with a field missing, empty or over-long, or an unparsable amount.
Malformed(body) ==
    \/ \E f \in Fields :
          \/ f \notin DOMAIN body
          \/ body[f] = ""
          \/ Len(body[f]) > Limit(f)
    \/ "amount" \notin DOMAIN body
    \/ ~Numeral(body["amount"])

\* The ids that arrive in malformed bodies only.
RejectedIds == { id \in TxIds : \A b \in Bodies : IdOf(b) = id => Malformed(b) }

\* C15. A malformed body fails validation; the failed validation is answered
\* 400 with nothing inserted and nothing enqueued; every row stems from a
\* well-formed body; and an id that arrived in malformed bodies only has no
\* row and no task call, and a GET of it answers 404.
C15_RejectedNoEffect ==
    /\ \A b \in Bodies : Malformed(b) => ~is_valid(b)
    /\ \A r \in Requests :
          (Done(r) /\ req[r].outcome = "invalid") =>
             /\ req[r].response = HTTP_400_BAD_REQUEST
             /\ ~req[r].inserted
             /\ ~req[r].dispatched
    /\ \A i \in DOMAIN transactions :
          \E b \in Bodies :
             /\ ~Malformed(b)
             /\ transactions[i].transaction_id = b["transaction_id"]
             /\ transactions[i].source_account = b["source_account"]
             /\ transactions[i].destination_account = b["destination_account"]
             /\ transactions[i].currency = b["currency"]
    /\ \A id \in RejectedIds :
          /\ Stored(id) = NULL
          /\ task_calls[id] = 0
          /\ queue[id] = 0
          /\ (got # NULL /\ got[1].transaction_id = id)
                => got[1].code = HTTP_404_NOT_FOUND

\* A submission was rejected and a GET of the id that arrives in malformed
\* bodies only has answered 404.
C15_Witness ==
    /\ \E r \in Requests : Done(r) /\ req[r].outcome = "invalid"
    /\ got # NULL
    /\ got[1].transaction_id \in RejectedIds
    /\ got[1].code = HTTP_404_NOT_FOUND

\* C16. The amount of every stored row is non-negative.
C16_NonNegativeAmount ==
    \A i \in DOMAIN transactions : ~Negative(transactions[i].amount)

\* C17. A submission whose process_transaction.delay() failed after the
\* commit of its row is answered 202, and its row is in the table,
\* PROCESSING.
C17_AcceptedWhenEnqueueFails ==
    \A r \in Requests :
        (Done(r) /\ req[r].outcome = "enqueue_failed") =>
           /\ req[r].response = HTTP_202_ACCEPTED
           /\ Stored(req[r].transaction_id) # NULL

C19_FailedWorkStillOwed ==
    \A w \in Workers :
        (/\ wrk[w].pc = "done"
         /\ wrk[w].result = "error"
         /\ Pending(wrk[w].transaction_id))
        => \/ queue[wrk[w].transaction_id] > 0
           \/ \E v \in Workers : Busy(v, wrk[w].transaction_id)

\* Worker w ends its invocation in this step without committing its update.
Aborts(w) ==
    /\ wrk[w].pc \in {"query", "sleep"}
    /\ wrk'[w].pc = "done"
    /\ wrk'[w].result \in {"error", "cancelled"}

\* C20. A task invocation that is cancelled or fails before its update
\* commits leaves the table exactly as it was, and after such a failure an
\* invocation that finds the row PROCESSING does not skip it and, when it
\* commits, leaves the row PROCESSED with processed_at set.
C20_FailureLeavesRowPending ==
    [][\A w \in Workers :
          /\ Aborts(w) => transactions' = transactions
          /\ (/\ wrk[w].pc = "query"
              /\ failed[wrk[w].transaction_id] > 0
              /\ Pending(wrk[w].transaction_id)
              /\ wrk'[w].pc = "done")
             => wrk'[w].result = "error"
          /\ (/\ wrk[w].pc = "sleep"
              /\ failed[wrk[w].transaction_id] > 0
              /\ CommitsUpdate(w, wrk[w].transaction_id))
             => Completed(wrk[w].transaction_id)']_vars

\* An invocation failed on the PROCESSING row of an id and a later one has
\* completed the row.
C20_Witness ==
    \E w \in Workers :
        /\ wrk[w].pc = "done"
        /\ wrk[w].result = "processed successfully"
        /\ failed[wrk[w].transaction_id] > 0
        /\ Completed(wrk[w].transaction_id)

\* Request r ends in this step because the store failed.
StoreFails(r) ==
    /\ req[r].pc # "done"
    /\ req'[r].pc = "done"
    /\ req'[r].outcome = "store_failed"

\* C21. A submission during whose lookup, INSERT or COMMIT the store fails
\* is answered 500, not 400; the step leaves the table as it is, discards
\* what the session had inserted and enqueues nothing.
C21_StoreFailureReported ==
    [][\A r \in Requests :
          StoreFails(r) =>
             /\ req'[r].response = HTTP_500_INTERNAL_SERVER_ERROR
             /\ req'[r].response # HTTP_400_BAD_REQUEST
             /\ ~req'[r].inserted
             /\ ~req'[r].dispatched
             /\ transactions' = transactions
             /\ \A u \in uncommitted' : u.session # r
             /\ queue' = queue
             /\ task_calls' = task_calls]_vars

\* The store failed on the only submission of an id: the call was answered
\* 500, the id has no row and no task call was made.
C21_Witness ==
    \E r \in Requests :
        /\ Done(r)
        /\ req[r].outcome = "store_failed"
        /\ req[r].response = HTTP_500_INTERNAL_SERVER_ERROR
        /\ Stored(req[r].transaction_id) = NULL
        /\ task_calls[req[r].transaction_id] = 0

\* C22. A task that is waiting in time.sleep(30) has no store transaction
\* open.
C22_NoTransactionWhileWaiting ==
    \A w \in Workers : wrk[w].pc = "sleep" => ~wrk[w].in_transaction

\* Worker w runs its lookup in this step and finds the row of its id PROCESSED.
FindsProcessed(w) ==
    /\ wrk[w].pc = "query"
    /\ wrk'[w] # wrk[w]
    /\ Completed(wrk[w].transaction_id)

\* C23. process_transaction on a PROCESSED row returns 'already processed'
\* in the step of its lookup: it does not enter the sleep, no time passes,
\* the row keeps its status and its processed_at, the table is otherwise
\* untouched and nothing is enqueued.
C23_SkipsProcessed ==
    [][\A w \in Workers :
          FindsProcessed(w) =>
             /\ wrk'[w].pc = "done"
             /\ wrk'[w].result = "already processed"
             /\ now' = now
             /\ Stored(wrk[w].transaction_id)' = Stored(wrk[w].transaction_id)
             /\ Len(transactions') = Len(transactions)
             /\ uncommitted' = uncommitted
             /\ queue' = queue
             /\ task_calls' = task_calls]_vars

\* An invocation returned 'already processed' for a row that carries the
\* processed_at another invocation wrote.
C23_Witness ==
    \E w \in Workers :
        /\ wrk[w].pc = "done"
        /\ wrk[w].result = "already processed"
        /\ Completed(wrk[w].transaction_id)
        /\ Stored(wrk[w].transaction_id)[1].processed_at[1]
              >= Stored(wrk[w].transaction_id)[1].created_at + SleepSeconds

\* Worker w runs its lookup in this step and finds no row of its id.
FindsNothing(w) ==
    /\ wrk[w].pc = "query"
    /\ wrk'[w] # wrk[w]
    /\ Stored(wrk[w].transaction_id) = NULL

\* C24. process_transaction for an id that has no row returns 'not found'
\* in the step of its lookup: it inserts nothing, leaves the table as it is,
\* does not wait and enqueues nothing.
C24_SkipsMissing ==
    [][\A w \in Workers :
          FindsNothing(w) =>
             /\ wrk'[w].pc = "done"
             /\ wrk'[w].result = "not found"
             /\ transactions' = transactions
             /\ uncommitted' = uncommitted
             /\ queue' = queue
             /\ task_calls' = task_calls
             /\ now' = now]_vars

\* An invocation for an id without a row returned 'not found', and the id
\* still has no row and nothing queued.
C24_Witness ==
    \E w \in Workers :
        /\ wrk[w].pc = "done"
        /\ wrk[w].result = "not found"
        /\ Stored(wrk[w].transaction_id) = NULL
        /\ queue[wrk[w].transaction_id] = 0

\* No submission of the id has committed a row.
NeverInserted(id) ==
    \A r \in Requests :
        ~(/\ req[r].pc \in {"delay", "done"}
          /\ req[r].inserted
          /\ req[r].transaction_id = id)

\* C25. While no submission of an id has committed a row, a GET of the id
\* answers 404 with no record in its body; and a GET changes nothing but
\* its own response: no row is created, no stored value changes.
C25_UnknownIdNotFound ==
    /\ [](\A id \in TxIds :
             NeverInserted(id) =>
                /\ Response(transactions, id).code = HTTP_404_NOT_FOUND
                /\ Response(transactions, id).body = <<>>
                /\ (got # NULL /\ got[1].transaction_id = id)
                      => got[1].code = HTTP_404_NOT_FOUND /\ got[1].body = <<>>)
    /\ [][got' # got =>
             /\ got' = Some(Response(transactions, got'[1].transaction_id))
             /\ UNCHANGED <<transactions, uncommitted, req, wrk, queue,
                            task_calls, now>>]_vars

\* A GET of an id that can be stored, and of which no submission has
\* committed a row, has answered 404.
C25_Witness ==
    /\ got # NULL
    /\ got[1].code = HTTP_404_NOT_FOUND
    /\ got[1].transaction_id \notin RejectedIds
    /\ NeverInserted(got[1].transaction_id)
    /\ transactions = <<>>

\* C26. A GET answered 200 carries exactly one record, and its id, source,
\* destination, amount and currency are those of a submitted body the
\* serializer accepts, with a status and the created_at of the row.
C26_RoundTrip ==
    (got # NULL /\ got[1].code = HTTP_200_OK) =>
        /\ Len(got[1].body) = 1
        /\ \E b \in Bodies :
              /\ is_valid(b)
              /\ got[1].body[1].transaction_id = b["transaction_id"]
              /\ got[1].body[1].source_account = b["source_account"]
              /\ got[1].body[1].destination_account = b["destination_account"]
              /\ got[1].body[1].amount = quantize(b["amount"])
              /\ got[1].body[1].currency = b["currency"]
        /\ got[1].body[1].status \in TransactionStatus
        /\ got[1].body[1].created_at
              = Some(Stored(got[1].transaction_id)[1].created_at)

\* C27. Every accepted submission learnt from its own INSERT whether the
\* row was created or existed: none was answered from a read of the row
\* made before any INSERT.
C27_DecidedByInsertAlone ==
    \A r \in Requests :
        Accepted(r) => req[r].outcome \in {"created", "conflict"}

\* Request r commits its inserted row in this step.
CommitsInsert(r) == req[r].pc = "commit" /\ req'[r].pc = "delay"

\* C28. Lifecycle: a row enters the table only in the step in which a
\* submission commits its INSERT; a row already in the table stays as it is
\* except in the step in which a task for its id commits, which takes it
\* from PROCESSING to PROCESSED with processed_at set and changes no other
\* field; no row leaves the table.
C28_Lifecycle ==
    [][/\ Len(transactions') >= Len(transactions)
       /\ \A i \in DOMAIN transactions' :
             i > Len(transactions) => \E r \in Requests : CommitsInsert(r)
       /\ \A i \in DOMAIN transactions :
             \/ transactions'[i] = transactions[i]
             \/ /\ transactions[i].status = PROCESSING
                /\ transactions'[i].processed_at # NULL
                /\ transactions'[i] =
                      [transactions[i] EXCEPT
                          !.status = PROCESSED,
                          !.processed_at = transactions'[i].processed_at]
                /\ \E w \in Workers :
                      CommitsUpdate(w, transactions[i].transaction_id)]_vars

\* C29. On the one clock of the model, the processed_at of every PROCESSED
\* row is not earlier than its created_at.
C29_CompletedAfterCreated ==
    \A i \in DOMAIN transactions :
        transactions[i].status = PROCESSED =>
            /\ transactions[i].processed_at # NULL
            /\ transactions[i].processed_at[1] >= transactions[i].created_at

\* A row created after the clock had advanced has been completed, a full
\* delay or more after its creation.
C29_Witness ==
    \E i \in DOMAIN transactions :
        /\ transactions[i].status = PROCESSED
        /\ transactions[i].created_at > 0
        /\ transactions[i].processed_at # NULL
        /\ transactions[i].processed_at[1]
              >= transactions[i].created_at + SleepSeconds

\* The submissions of id that have made their task call and returned.
Dispatched(id) ==
    { r \in Requests :
         Done(r) /\ req[r].dispatched /\ req[r].transaction_id = id }

\* C30. A submission never waits for a task: with the requests scheduled
\* fairly and no obligation on the broker or the workers, every request
\* that has passed its lookup returns, whether no task ever runs or tasks
\* are in their sleep; and each returned request made at most one task call.
C30_SubmitNeverWaits ==
    /\ \A r \in Requests :
          (req[r].pc \in {"flush", "commit", "delay"}) ~> Done(r)
    /\ [](\A id \in TxIds : task_calls[id] = Cardinality(Dispatched(id)))

\* A submission has returned 202 while a task for its id is in its sleep
\* and the task request it enqueued is still undelivered.
C30_Witness ==
    \E r \in Requests :
        /\ Accepted(r) /\ req[r].outcome = "created"
        /\ queue[req[r].transaction_id] = 1
        /\ \E w \in Workers :
              wrk[w].pc = "sleep" /\ wrk[w].transaction_id = req[r].transaction_id

\* C31. health_check answers in every state, always with status HEALTHY and
\* the time of the call, whatever has failed on the store or the broker;
\* and it changes nothing but its own response.
C31_AlwaysHealthy ==
    /\ [](ENABLED Health)
    /\ [](health # NULL => health[1].status = "HEALTHY")
    /\ [][health' # health =>
             /\ health'[1].current_time = now
             /\ UNCHANGED <<transactions, uncommitted, req, wrk, queue,
                            task_calls, now, got, failed, _engine,
                            _SessionLocal, created, thread>>]_vars

\* The health check has answered HEALTHY after a submission failed on the
\* store.
C31_Witness ==
    /\ health # NULL
    /\ health[1].status = "HEALTHY"
    /\ \E r \in Requests :
          /\ Done(r)
          /\ req[r].outcome = "store_failed"

\* A submission of id committed its row and then failed to enqueue.
EnqueueFailed(id) ==
    \E r \in Requests :
        /\ Done(r)
        /\ req[r].outcome = "enqueue_failed"
        /\ req[r].transaction_id = id

\* C32. Once a submission of an id has committed its row and failed to
\* enqueue, the row is PROCESSING with processed_at NULL in every later
\* state: no task request for the id is queued or running, no task call for
\* it was made, and every other submission of the id was answered 202
\* without a task call.
C32_EnqueueGapNotHealed ==
    \A id \in TxIds :
        EnqueueFailed(id) =>
           /\ Stored(id) # NULL
           /\ Untouched(Stored(id)[1])
           /\ queue[id] = 0
           /\ task_calls[id] = 0
           /\ \A w \in Workers : ~Busy(w, id)
           /\ \A r \in Requests :
                 (/\ Done(r)
                  /\ req[r].transaction_id = id
                  /\ req[r].outcome # "enqueue_failed")
                 => /\ req[r].response = HTTP_202_ACCEPTED
                    /\ ~req[r].dispatched

\* After the enqueue of the first submission failed, the id was submitted
\* again and answered 202, and the row is still PROCESSING with nothing
\* queued.
C32_Witness ==
    \E r1, r2 \in Requests :
        /\ Done(r1) /\ req[r1].outcome = "enqueue_failed"
        /\ Done(r2) /\ req[r2].outcome = "duplicate"
        /\ req[r2].response = HTTP_202_ACCEPTED
        /\ req[r1].transaction_id = req[r2].transaction_id
        /\ Pending(req[r1].transaction_id)
        /\ queue[req[r1].transaction_id] = 0

\* The row carries the id, accounts, amount and currency of one accepted body.
FromOnePayload(row) ==
    \E b \in Bodies :
        /\ is_valid(b)
        /\ row.transaction_id = b["transaction_id"]
        /\ row.source_account = b["source_account"]
        /\ row.destination_account = b["destination_account"]
        /\ row.amount = quantize(b["amount"])
        /\ row.currency = b["currency"]

\* Request r loses the race for its id in this step: its INSERT is refused.
LosesRace(r) == req[r].pc = "flush" /\ req'[r].pc = "done"

\* C33. Submissions of one id with different payloads leave one row, which
\* carries the payload of one of them in all its fields; the submission
\* whose INSERT is refused changes neither the table nor the queue; and the
\* one task call for the id was made by a submission that had inserted.
C33_OnePayloadWins ==
    /\ [](\A id \in TxIds :
             /\ count(transactions, id) <= 1
             /\ task_calls[id] <= 1
             /\ Stored(id) # NULL => FromOnePayload(Stored(id)[1]))
    /\ [](\A r \in Requests : (Done(r) /\ req[r].dispatched) => req[r].inserted)
    /\ [][\A r \in Requests :
             LosesRace(r) =>
                /\ req'[r].response = HTTP_202_ACCEPTED
                /\ ~req'[r].inserted
                /\ ~req'[r].dispatched
                /\ transactions' = transactions
                /\ uncommitted' = uncommitted
                /\ queue' = queue
                /\ task_calls' = task_calls]_vars

\* Two submissions of an id raced: one inserted and made the task call, the
\* INSERT of the other was refused, and the table holds one row of the id.
C33_Witness ==
    \E r1, r2 \in Requests :
        /\ Done(r1) /\ req[r1].outcome = "created" /\ req[r1].inserted
        /\ Done(r2) /\ req[r2].outcome = "conflict"
        /\ req[r1].transaction_id = req[r2].transaction_id
        /\ count(transactions, req[r1].transaction_id) = 1
        /\ task_calls[req[r1].transaction_id] = 1
        /\ FromOnePayload(Stored(req[r1].transaction_id)[1])

\* Worker w takes a step of its invocation.
Runs(w) == wrk[w].pc \in {"query", "sleep"} /\ wrk'[w] # wrk[w]

\* C34. A step of process_transaction(id) changes at most the status and
\* the processed_at of the row of that id: the other fields of that row and
\* every row of another id are as before, and no row is added or removed.
C34_FinalizeFrame ==
    [][\A w \in Workers :
          Runs(w) =>
             /\ Len(transactions') = Len(transactions)
             /\ \A i \in DOMAIN transactions :
                   IF transactions[i].transaction_id = wrk[w].transaction_id
                   THEN transactions'[i] =
                           [transactions[i] EXCEPT
                               !.status = transactions'[i].status,
                               !.processed_at = transactions'[i].processed_at]
                   ELSE transactions'[i] = transactions[i]]_vars

\* The table holds rows of two ids; a task has completed one of them and
\* the other is as it was created.
C34_Witness ==
    /\ Len(transactions) = 2
    /\ \E i, j \in DOMAIN transactions :
          /\ transactions[i].transaction_id # transactions[j].transaction_id
          /\ transactions[i].status = PROCESSED
          /\ Untouched(transactions[j])
          /\ \E w \in Workers :
                /\ wrk[w].pc = "done"
                /\ wrk[w].result = "processed successfully"
                /\ wrk[w].transaction_id = transactions[i].transaction_id

\* C35. Sessions do not leak: a request that has returned and a task that has
\* returned hold no open session, whichever return they took (accepted,
\* rejected, duplicate, conflict, server error, not found, already processed,
\* processed, exception, time limit), and at every moment the number of
\* open sessions is at most the number of operations between their
\* SessionLocal() and their finally block.
OpenRequests == { r \in Requests : req[r].pc # "idle" /\ req[r].session_open }
OpenWorkers == { w \in Workers : wrk[w].pc # "idle" /\ wrk[w].session_open }
InFlightRequests == { r \in Requests : req[r].pc \in {"flush", "commit", "delay"} }
InFlightWorkers == { w \in Workers : wrk[w].pc \in {"query", "sleep"} }

ReturnedBy(t, call) == thread[t].pc = "done" /\ thread[t].call = call

C36_Singletons ==
    /\ created.engines <= 1
    /\ created.factories <= 1
    /\ \A t, u \in Threads :
          \A call \in {"get_engine", "_get_session_factory"} :
             ReturnedBy(t, call) /\ ReturnedBy(u, call)
                => thread[t].returned = thread[u].returned
====
